---- MODULE Spec2Model ----
(***************************************************************************)
(* The ledger engine of younis_bank.py: deposit, withdraw and transfer     *)
(* over one SQLite database, every call on a connection of its own.       *)
(*                                                                         *)
(* The store is modelled as SQLite in its default rollback-journal mode,  *)
(* driven through Python's sqlite3 module with its default                *)
(* isolation_level: a SELECT runs outside any transaction and reads the   *)
(* committed database; the first UPDATE/INSERT of a connection opens a    *)
(* deferred transaction and takes the database's single write lock;       *)
(* "BEGIN IMMEDIATE" takes that lock at once; writes stay private to the  *)
(* connection until commit; leaving "with conn:" by an exception rolls    *)
(* back.                                                                   *)
(***************************************************************************)
EXTENDS Integers, Sequences, FiniteSets, TLC

\* ---------------------------------------------------------------- bounds
NumProcs == 2
MaxAmount == 2
MaxOps == 2
MaxDeletes == 1

Procs == 1..NumProcs
Amounts == (-1)..MaxAmount
Users == {1, 2}
Names == {"Checking", "Savings"}

\* get_account's None
NoAccount == 0

\* ------------------------------------------------------- database contents
\* The accounts table after two sign-ups (create_user adds "Checking"), one
\* create_account(1, "Savings") and one deposit(1, "Checking", MaxAmount):
\* id -> row.
InitAccounts ==
    (1 :> [user_id |-> 1, name |-> "Checking", balance_cents |-> MaxAmount]) @@
    (2 :> [user_id |-> 2, name |-> "Checking", balance_cents |-> 0]) @@
    (3 :> [user_id |-> 1, name |-> "Savings", balance_cents |-> 0])

EmptyDb == [accounts |-> <<>>, transactions |-> <<>>]

\* No do_history under way: nothing typed, nothing listed.
NoHistory == [input |-> <<>>, rows |-> <<>>]

\* The codec at rest.
\* What to_cents gives back: a number of cents, or a ValueError.
NoParse == [ok |-> FALSE, value |-> 0, err |-> ""]
Parsed(v) == [ok |-> TRUE, value |-> v, err |-> ""]
ValueError(msg) == [ok |-> FALSE, value |-> 0, err |-> msg]

NoCodec == [stage |-> "idle", cents |-> 0, text |-> <<>>, parsed |-> NoParse]

NoCall == [kind |-> "none", user_id |-> 0, name |-> "", to |-> "", amount |-> 0]

Calls ==
    [kind : {"deposit", "withdraw"}, user_id : Users, name : Names,
     to : {""}, amount : Amounts]
    \cup
    [kind : {"transfer"}, user_id : Users, name : Names, to : Names,
     amount : Amounts]

VARIABLES
    accounts,       \* committed accounts table: id -> row
    transactions,   \* committed transactions table, in id order
    lock,           \* the connections holding the write lock (at most one)
    txn,            \* the lock holder's uncommitted view of both tables
    pc,             \* each caller's position
    call,           \* each caller's operation and arguments
    src,            \* transfer: src.id; deposit/withdraw: acc.id
    dst,            \* transfer: dst.id
    leg,            \* which add_tx of the call is running (1 or 2)
    new_balance,    \* add_tx's local new_balance
    result,         \* how the call ended ("none" while it runs)
    pre,            \* the committed tables when the call was made, taken
                    \* again when a transfer takes the write lock
    started,        \* calls made so far
    deleted,        \* accounts deleted so far
    returned,       \* what each finished call handed back: <<>> is None
    history,        \* what each caller's do_history was given and got
    codec           \* the money codec at work: an amount, its text, its parse

vars == <<accounts, transactions, lock, txn, pc, call, src, dst, leg,
          new_balance, result, pre, started, deleted, returned, history,
          codec>>

\* ------------------------------------------------------------ pure helpers
RECURSIVE SumAmounts(_)
SumAmounts(rows) ==
    IF rows = <<>> THEN 0
    ELSE rows[1].amount_cents + SumAmounts(Tail(rows))

RowsOf(txs, a) == SelectSeq(txs, LAMBDA r : r.account_id = a)

\* Mutant: the account is looked up by name alone.
get_account_by_name(accs, user_id, name) ==
    LET hit == {a \in DOMAIN accs : accs[a].name = name}
    IN  IF hit = {} THEN NoAccount ELSE CHOOSE a \in hit : TRUE

\* SELECT ... FROM accounts WHERE user_id=? AND name=?  (UNIQUE(user_id, name))
get_account(accs, user_id, name) ==
    LET hit == {a \in DOMAIN accs :
                    accs[a].user_id = user_id /\ accs[a].name = name}
    IN  IF hit = {} THEN NoAccount ELSE CHOOSE a \in hit : TRUE

\* Mutant: only a negative amount is refused.
InvalidAmountZeroAccepted(amount_cents) == amount_cents < 0

\* "if amount_cents <= 0: raise ValueError"
InvalidAmount(amount_cents) == amount_cents <= 0

\* Mutant: the amount is subtracted.
NewBalanceSubtracted(balance, amount_cents) == balance - amount_cents

\* add_tx: new_balance = balance + amount_cents
NewBalance(balance, amount_cents) == balance + amount_cents

\* Mutant: the check of the new balance is missing.
InsufficientNeverRaised(nb) == FALSE

\* add_tx: "if new_balance < 0: raise ValueError('Insufficient funds')"
Insufficient(nb) == nb < 0

\* Mutant: both legs of a transfer are recorded as transfer_out.
TxKindAlwaysOut(c, l) ==
    IF c.kind = "transfer" THEN "transfer_out" ELSE c.kind

\* The kind and signed amount each caller hands to add_tx.
TxKind(c, l) ==
    IF c.kind = "transfer"
    THEN (IF l = 1 THEN "transfer_out" ELSE "transfer_in")
    ELSE c.kind

\* Mutant: withdraw hands add_tx the amount without the minus sign.
TxAmountWithdrawUnsigned(c, l) ==
    CASE c.kind = "deposit" -> c.amount
      [] c.kind = "withdraw" -> c.amount
      [] c.kind = "transfer" /\ l = 1 -> -c.amount
      [] OTHER -> c.amount

TxAmount(c, l) ==
    CASE c.kind = "deposit" -> c.amount
      [] c.kind = "withdraw" -> -c.amount
      [] c.kind = "transfer" /\ l = 1 -> -c.amount
      [] OTHER -> c.amount

\* Mutant: the row stores the amount without its sign.
TxRowUnsigned(account_id, kind, amount_cents, nb) ==
    [account_id |-> account_id, kind |-> kind,
     amount_cents |-> IF amount_cents < 0 THEN -amount_cents ELSE amount_cents,
     balance_after_cents |-> nb]

\* The row add_tx inserts.
TxRow(account_id, kind, amount_cents, nb) ==
    [account_id |-> account_id, kind |-> kind, amount_cents |-> amount_cents,
     balance_after_cents |-> nb]

\* Mutant: the UPDATE is lost, only the row is written.
UpdateBalanceLost(accs, account_id, nb) == accs

\* UPDATE accounts SET balance_cents=? WHERE id=?  (no row: nothing changes)
UpdateBalance(accs, account_id, nb) ==
    IF account_id \in DOMAIN accs
    THEN [accs EXCEPT ![account_id].balance_cents = nb]
    ELSE accs

\* Mutant: what the connection wrote before the exception is kept.
AfterExceptionKept(committed, uncommitted) == uncommitted

\* The transactions table after that first deposit.
InitTransactions == << TxRow(1, "deposit", MaxAmount, MaxAmount) >>

\* deposit, withdraw and transfer end without a return statement: the caller
\* gets None.
\* Mutant: the call ends with "return amount_cents".
ReturnValueAmount(c) == <<c.amount>>

ReturnValue(c) == <<>>

\* Mutant: a transfer to the same account is let through.
SameAccountNeverRefused(s, d) == FALSE

\* transfer: "if src.id == dst.id: raise ValueError"
SameAccount(s, d) == s = d

\* ------------------------------------------------------------ money codec
\* A str is a sequence of one-character strings.
DigitChars == <<"0", "1", "2", "3", "4", "5", "6", "7", "8", "9">>
Digits == {DigitChars[i] : i \in 1..10}
Whitespace == {" ", "\t", "\n", "\r"}

DigitVal(ch) == (CHOOSE i \in 1..10 : DigitChars[i] = ch) - 1

RECURSIVE LStrip(_)
LStrip(str) ==
    IF str # <<>> /\ Head(str) \in Whitespace THEN LStrip(Tail(str)) ELSE str

RECURSIVE RStrip(_)
RStrip(str) ==
    IF str # <<>> /\ str[Len(str)] \in Whitespace
    THEN RStrip(SubSeq(str, 1, Len(str) - 1))
    ELSE str

\* str.strip()
Strip(str) == RStrip(LStrip(str))

\* str.replace(ch, "")
RemoveAll(str, ch) == SelectSeq(str, LAMBDA c : c # ch)

\* str.count(ch)
Count(str, ch) == Len(SelectSeq(str, LAMBDA c : c = ch))

\* str.startswith(ch)
StartsWith(str, ch) == str # <<>> /\ Head(str) = ch

\* str.isdigit(), False for the empty str
IsDigit(str) == str # <<>> /\ \A i \in 1..Len(str) : str[i] \in Digits

\* int(str) of a str of digits
RECURSIVE IntOf(_)
IntOf(str) ==
    IF str = <<>> THEN 0
    ELSE IntOf(SubSeq(str, 1, Len(str) - 1)) * 10 + DigitVal(str[Len(str)])

\* str(n)
RECURSIVE StrOf(_)
StrOf(n) ==
    IF n < 0 THEN <<"-">> \o StrOf(-n)
    ELSE IF n < 10 THEN <<DigitChars[n + 1]>>
    ELSE StrOf(n \div 10) \o <<DigitChars[(n % 10) + 1]>>

\* Mutant: the sign is read off the number the whole part denotes, and "-0"
\* denotes 0.
SignOfWholeValue(whole) ==
    IF StartsWith(whole, "-") /\ IntOf(Tail(whole)) > 0 THEN -1 ELSE 1

\* to_cents: sign = -1 if whole.startswith("-") else 1
Sign(whole) == IF StartsWith(whole, "-") THEN -1 ELSE 1

\* Mutant: the fractional digits are taken as typed.
PadFracMissing(frac) == frac

\* to_cents: frac = (frac + "00")[:2]
PadFrac(frac) == SubSeq(frac \o <<"0", "0">>, 1, 2)

to_cents(amount_str) ==
    LET stripped == RemoveAll(Strip(amount_str), ",")
        str == IF StartsWith(stripped, "$") THEN Tail(stripped) ELSE stripped
    IN  IF Count(str, ".") > 1 THEN ValueError("Invalid amount format")
        ELSE
        LET dot == IF Count(str, ".") = 0 THEN Len(str) + 1
                   ELSE CHOOSE i \in 1..Len(str) : str[i] = "."
            whole0 == SubSeq(str, 1, dot - 1)
            frac0 == SubSeq(str, dot + 1, Len(str))
        IN  IF Count(str, ".") = 1 /\ Len(frac0) > 2
            THEN ValueError("Too many decimal places; use at most 2")
            ELSE
            LET frac == IF Count(str, ".") = 0 THEN <<"0", "0">>
                        ELSE PadFrac(frac0)
                whole == IF whole0 = <<>> THEN <<"0">> ELSE whole0
            IN  IF ~ (\/ StartsWith(whole, "-") /\ IsDigit(Tail(whole))
                      \/ IsDigit(whole))
                THEN ValueError("Invalid amount")
                ELSE IF ~ IsDigit(frac) THEN ValueError("Invalid cents")
                ELSE LET whole_abs ==
                             IntOf(IF StartsWith(whole, "-") THEN Tail(whole)
                                   ELSE whole)
                     IN  Parsed(Sign(whole) * (whole_abs * 100 + IntOf(frac)))

\* Mutant: the magnitude is not taken, so // and % work on a negative number.
AbsMissing(cents) == cents

\* from_cents: cents = abs(cents)
Abs(cents) == IF cents < 0 THEN -cents ELSE cents

\* from_cents: f"{sign}{cents//100}.{cents%100:02d}"
from_cents(cents) ==
    LET sign == IF cents < 0 THEN <<"-">> ELSE <<>>
        c == Abs(cents)
        rem == c % 100
    IN  sign \o StrOf(c \div 100) \o <<".">>
             \o <<DigitChars[(rem \div 10) + 1], DigitChars[(rem % 10) + 1]>>

\* Session.do_history: max(1, min(200, ...)) and the "20" of an empty answer.
MinLimit == 1
MaxLimit == 200
DefaultLimit == 20

Min(a, b) == IF a <= b THEN a ELSE b
Max(a, b) == IF a >= b THEN a ELSE b

Reverse(seq) == [i \in 1..Len(seq) |-> seq[Len(seq) + 1 - i]]

\* Mutant: the limit goes to get_history as typed.
ClampLimitMissing(k) == k

\* Session.do_history: limit = max(1, min(200, int(limit_str)))
ClampLimit(k) == Max(MinLimit, Min(MaxLimit, k))

\* Session.do_history: limit_str = input(...).strip() or "20"; int(limit_str).
\* What was typed is <<>> (nothing) or <<k>> (the integer k).
LimitTyped(input) == IF input = <<>> THEN DefaultLimit ELSE input[1]

\* SQLite's LIMIT k: the first k rows, every row when k is negative.
SqlLimit(rows, k) ==
    IF k < 0 THEN rows ELSE SubSeq(rows, 1, Min(k, Len(rows)))

\* get_history's SELECT ... WHERE account_id=? ORDER BY id DESC LIMIT ?
get_history(txs, account_id, limit) ==
    SqlLimit(Reverse(RowsOf(txs, account_id)), limit)

\* Leaving "with conn:" by an exception: the connection rolls back, the
\* database keeps its committed contents.
AfterException(committed, uncommitted) == committed

\* conn.commit(): the connection's view becomes the committed database.
AfterCommit(committed, uncommitted) == uncommitted

Committed == [accounts |-> accounts, transactions |-> transactions]

\* What a statement of caller p's connection reads.
View(p) == IF lock = {p} THEN txn ELSE Committed

\* The account add_tx is working on.
Target(p) == IF leg[p] = 1 THEN src[p] ELSE dst[p]

\* --------------------------------------------------------------- actions
\* No call under way, no connection open.
InitCallers ==
    /\ lock = {}
    /\ txn = EmptyDb
    /\ pc = [p \in Procs |-> "idle"]
    /\ call = [p \in Procs |-> NoCall]
    /\ src = [p \in Procs |-> NoAccount]
    /\ dst = [p \in Procs |-> NoAccount]
    /\ leg = [p \in Procs |-> 1]
    /\ new_balance = [p \in Procs |-> 0]
    /\ result = [p \in Procs |-> "none"]
    /\ pre = [p \in Procs |-> EmptyDb]
    /\ started = 0
    /\ deleted = 0
    /\ returned = [p \in Procs |-> <<>>]
    /\ history = [p \in Procs |-> NoHistory]

Init ==
    /\ accounts = InitAccounts
    /\ transactions = InitTransactions
    /\ InitCallers
    /\ codec = NoCodec

\* The call ends by an exception: "with conn:" rolls back what the connection
\* has not committed and the write lock, if held, is released.
Raise(p, err) ==
    /\ pc' = [pc EXCEPT ![p] = "done"]
    /\ result' = [result EXCEPT ![p] = err]
    /\ IF lock = {p}
       THEN /\ accounts' = AfterException(Committed, txn).accounts
            /\ transactions' = AfterException(Committed, txn).transactions
            /\ lock' = {}
            /\ txn' = EmptyDb
       ELSE UNCHANGED <<accounts, transactions, lock, txn>>

\* deposit / withdraw / transfer up to and including the first get_account.
Call(p, c) ==
    /\ pc[p] = "idle"
    /\ UNCHANGED <<returned, history, codec>>
    /\ started < MaxOps
    /\ started' = started + 1
    /\ call' = [call EXCEPT ![p] = c]
    /\ pre' = [pre EXCEPT ![p] = Committed]
    /\ leg' = [leg EXCEPT ![p] = 1]
    /\ UNCHANGED <<dst, new_balance, deleted>>
    /\ LET acc == get_account(accounts, c.user_id, c.name) IN
       IF InvalidAmount(c.amount)
       THEN /\ Raise(p, "InvalidAmount")
            /\ UNCHANGED src
       ELSE IF c.kind = "transfer"
       THEN /\ src' = [src EXCEPT ![p] = acc]
            /\ pc' = [pc EXCEPT ![p] = "lookup_dst"]
            /\ UNCHANGED <<accounts, transactions, lock, txn, result>>
       ELSE IF acc = NoAccount
       THEN /\ Raise(p, "AccountNotFound")
            /\ UNCHANGED src
       ELSE /\ src' = [src EXCEPT ![p] = acc]
            /\ pc' = [pc EXCEPT ![p] = "select"]
            /\ UNCHANGED <<accounts, transactions, lock, txn, result>>

\* transfer: dst = get_account(...), then the two checks on src and dst.
LookupDst(p) ==
    /\ pc[p] = "lookup_dst"
    /\ UNCHANGED <<returned, history, codec>>
    /\ UNCHANGED <<call, src, leg, new_balance, pre, started, deleted>>
    /\ LET acc == get_account(accounts, call[p].user_id, call[p].to) IN
       IF src[p] = NoAccount \/ acc = NoAccount
       THEN /\ Raise(p, "AccountNotFound")
            /\ UNCHANGED dst
       ELSE IF SameAccount(src[p], acc)
       THEN /\ Raise(p, "SameAccountTransfer")
            /\ UNCHANGED dst
       ELSE /\ dst' = [dst EXCEPT ![p] = acc]
            /\ pc' = [pc EXCEPT ![p] = "begin"]
            /\ UNCHANGED <<accounts, transactions, lock, txn, result>>

\* transfer: cur.execute("BEGIN IMMEDIATE") takes the write lock.
\* Mutant: no BEGIN IMMEDIATE; the transaction opens at the first UPDATE, as
\* it does in deposit and withdraw.
BeginDeferred(p) ==
    /\ pc[p] = "begin"
    /\ pc' = [pc EXCEPT ![p] = "select"]
    /\ UNCHANGED <<accounts, transactions, lock, txn, call, src, dst, leg,
                   new_balance, result, pre, started, deleted, returned,
                   history, codec>>

BeginImmediate(p) ==
    /\ pc[p] = "begin"
    /\ UNCHANGED <<returned, history, codec>>
    /\ lock = {}
    /\ lock' = {p}
    /\ txn' = Committed
    /\ pre' = [pre EXCEPT ![p] = Committed]
    /\ pc' = [pc EXCEPT ![p] = "select"]
    /\ UNCHANGED <<accounts, transactions, call, src, dst, leg, new_balance,
                   result, started, deleted>>

\* add_tx: the SELECT of the balance and the two checks that follow it.
Select(p) ==
    /\ pc[p] = "select"
    /\ UNCHANGED <<returned, history, codec>>
    /\ UNCHANGED <<call, src, dst, leg, pre, started, deleted>>
    /\ LET accs == View(p).accounts
           a == Target(p)
       IN  IF a \notin DOMAIN accs
           THEN /\ Raise(p, "AccountNotFound")
                /\ UNCHANGED new_balance
           ELSE LET nb == NewBalance(accs[a].balance_cents,
                                     TxAmount(call[p], leg[p]))
                IN  IF Insufficient(nb)
                    THEN /\ Raise(p, "InsufficientFunds")
                         /\ UNCHANGED new_balance
                    ELSE /\ new_balance' = [new_balance EXCEPT ![p] = nb]
                         /\ pc' = [pc EXCEPT ![p] = "update"]
                         /\ UNCHANGED <<accounts, transactions, lock, txn,
                                        result>>

\* add_tx: the UPDATE. Outside a transaction sqlite3 first opens one, and the
\* statement takes the write lock.
Update(p) ==
    /\ pc[p] = "update"
    /\ UNCHANGED <<returned, history, codec>>
    /\ lock \subseteq {p}
    /\ lock' = {p}
    /\ txn' = [View(p) EXCEPT
                 !.accounts = UpdateBalance(@, Target(p), new_balance[p])]
    /\ pc' = [pc EXCEPT ![p] = "insert"]
    /\ UNCHANGED <<accounts, transactions, call, src, dst, leg, new_balance,
                   result, pre, started, deleted>>

\* add_tx: the INSERT of the transaction row; a transfer goes on to its
\* second add_tx, the others to conn.commit().
Insert(p) ==
    /\ pc[p] = "insert"
    /\ UNCHANGED <<returned, history, codec>>
    /\ lock = {p}
    /\ txn' = [txn EXCEPT
                 !.transactions =
                     Append(@, TxRow(Target(p), TxKind(call[p], leg[p]),
                                     TxAmount(call[p], leg[p]),
                                     new_balance[p]))]
    /\ IF call[p].kind = "transfer" /\ leg[p] = 1
       THEN /\ leg' = [leg EXCEPT ![p] = 2]
            /\ pc' = [pc EXCEPT ![p] = "select"]
       ELSE /\ pc' = [pc EXCEPT ![p] = "commit"]
            /\ UNCHANGED leg
    /\ UNCHANGED <<accounts, transactions, lock, call, src, dst, new_balance,
                   result, pre, started, deleted>>

\* conn.commit()
Commit(p) ==
    /\ pc[p] = "commit"
    /\ lock = {p}
    /\ accounts' = AfterCommit(Committed, txn).accounts
    /\ transactions' = AfterCommit(Committed, txn).transactions
    /\ lock' = {}
    /\ txn' = EmptyDb
    /\ pc' = [pc EXCEPT ![p] = "done"]
    /\ result' = [result EXCEPT ![p] = "ok"]
    /\ returned' = [returned EXCEPT ![p] = ReturnValue(call[p])]
    /\ UNCHANGED <<call, src, dst, leg, new_balance, pre, started, deleted,
                   history, codec>>

\* The write lock stays with another connection past sqlite3's busy timeout:
\* the statement raises OperationalError("database is locked").
Busy(p) ==
    /\ pc[p] \in {"begin", "update"}
    /\ UNCHANGED <<returned, history, codec>>
    /\ lock # {}
    /\ lock # {p}
    /\ Raise(p, "DatabaseLocked")
    /\ UNCHANGED <<call, src, dst, leg, new_balance, pre, started, deleted>>

\* The store fails (an I/O error) under a statement or the commit of a
\* connection that has uncommitted writes.
StorageFail(p) ==
    /\ pc[p] \in {"select", "update", "insert", "commit"}
    /\ UNCHANGED <<returned, history, codec>>
    /\ lock = {p}
    /\ txn # Committed
    /\ Raise(p, "StorageUnavailable")
    /\ UNCHANGED <<call, src, dst, leg, new_balance, pre, started, deleted>>

\* The caller takes the outcome; its locals are gone.
Return(p) ==
    /\ pc[p] = "done"
    /\ pc' = [pc EXCEPT ![p] = "idle"]
    /\ call' = [call EXCEPT ![p] = NoCall]
    /\ src' = [src EXCEPT ![p] = NoAccount]
    /\ dst' = [dst EXCEPT ![p] = NoAccount]
    /\ leg' = [leg EXCEPT ![p] = 1]
    /\ new_balance' = [new_balance EXCEPT ![p] = 0]
    /\ result' = [result EXCEPT ![p] = "none"]
    /\ pre' = [pre EXCEPT ![p] = EmptyDb]
    /\ returned' = [returned EXCEPT ![p] = <<>>]
    /\ history' = [history EXCEPT ![p] = NoHistory]
    /\ UNCHANGED <<accounts, transactions, lock, txn, started, deleted, codec>>

\* Session.do_history followed by get_history: two SELECTs on the committed
\* tables, nothing written.
History(p, user_id, name, input) ==
    /\ pc[p] = "idle"
    /\ started < MaxOps
    /\ started' = started + 1
    /\ call' = [call EXCEPT ![p] = [kind |-> "history", user_id |-> user_id,
                                    name |-> name, to |-> "", amount |-> 0]]
    /\ pre' = [pre EXCEPT ![p] = Committed]
    /\ pc' = [pc EXCEPT ![p] = "done"]
    /\ LET acc == get_account(accounts, user_id, name) IN
       /\ src' = [src EXCEPT ![p] = acc]
       /\ IF acc = NoAccount
          THEN /\ result' = [result EXCEPT ![p] = "AccountNotFound"]
               /\ history' = [history EXCEPT ![p] =
                                 [input |-> input, rows |-> <<>>]]
          ELSE /\ result' = [result EXCEPT ![p] = "ok"]
               /\ history' = [history EXCEPT ![p] =
                                 [input |-> input,
                                  rows |-> get_history(transactions, acc,
                                               ClampLimit(LimitTyped(input)))]]
    /\ UNCHANGED <<accounts, transactions, lock, txn, dst, leg, new_balance,
                   deleted, returned, codec>>

\* Outside the engine an account row is deleted (the schema's ON DELETE
\* CASCADE takes its transactions along); a delete is a write and needs the
\* write lock.
DeleteAccount(a) ==
    /\ a \in DOMAIN accounts
    /\ UNCHANGED <<returned, history, codec>>
    /\ lock = {}
    /\ deleted < MaxDeletes
    /\ deleted' = deleted + 1
    /\ accounts' = [b \in DOMAIN accounts \ {a} |-> accounts[b]]
    /\ transactions' = SelectSeq(transactions, LAMBDA r : r.account_id # a)
    /\ UNCHANGED <<lock, txn, pc, call, src, dst, leg, new_balance, result,
                   pre, started>>

Next ==
    \/ \E p \in Procs, c \in Calls : Call(p, c)
    \/ \E p \in Procs : LookupDst(p)
    \/ \E p \in Procs : BeginImmediate(p)
    \/ \E p \in Procs : Select(p)
    \/ \E p \in Procs : Update(p)
    \/ \E p \in Procs : Insert(p)
    \/ \E p \in Procs : Commit(p)
    \/ \E p \in Procs : Busy(p)
    \/ \E p \in Procs : StorageFail(p)
    \/ \E p \in Procs : Return(p)
    \/ \E a \in DOMAIN accounts : DeleteAccount(a)

Spec == Init /\ [][Next]_vars

\* One call at a time: a call is made, and an account deleted, only while no
\* other call is under way.
Quiet(p) == \A q \in Procs \ {p} : pc[q] = "idle"

NextSerial ==
    \/ \E p \in Procs, c \in Calls : Quiet(p) /\ Call(p, c)
    \/ \E p \in Procs : LookupDst(p)
    \/ \E p \in Procs : BeginImmediate(p)
    \/ \E p \in Procs : Select(p)
    \/ \E p \in Procs : Update(p)
    \/ \E p \in Procs : Insert(p)
    \/ \E p \in Procs : Commit(p)
    \/ \E p \in Procs : StorageFail(p)
    \/ \E p \in Procs : Return(p)
    \/ \E a \in DOMAIN accounts :
           (\A q \in Procs : pc[q] = "idle") /\ DeleteAccount(a)

SpecSerial == Init /\ [][NextSerial]_vars

\* One call at a time, listings of the history among them.
FewHistoryInputs == {<<>>, <<MinLimit>>}

NextCalls ==
    \/ NextSerial
    \/ \E p \in Procs, u \in Users, n \in Names, input \in FewHistoryInputs :
           Quiet(p) /\ History(p, u, n, input)

SpecCalls == Init /\ [][NextCalls]_vars

\* Only transfers run, any of them at the same time, and no account is
\* deleted.
TransferCalls == {c \in Calls : c.kind = "transfer"}

NextTransfers ==
    \/ \E p \in Procs, c \in TransferCalls : Call(p, c)
    \/ \E p \in Procs : LookupDst(p)
    \/ \E p \in Procs : BeginImmediate(p)
    \/ \E p \in Procs : Select(p)
    \/ \E p \in Procs : Update(p)
    \/ \E p \in Procs : Insert(p)
    \/ \E p \in Procs : Commit(p)
    \/ \E p \in Procs : Busy(p)
    \/ \E p \in Procs : StorageFail(p)
    \/ \E p \in Procs : Return(p)

SpecTransfers == Init /\ [][NextTransfers]_vars

\* Listing histories of different lengths: user 1's "Checking" after n
\* deposits of one cent, n around the limits do_history works with.
HistorySizes ==
    {0, MinLimit, DefaultLimit - 1, DefaultLimit, DefaultLimit + 1,
     MaxLimit, MaxLimit + 1}

\* What may be typed at "How many rows": nothing, or an integer.
HistoryInputs == {<<>>} \cup {<<k>> : k \in (-2)..(MaxLimit + 2)}

InitHistory ==
    /\ \E n \in HistorySizes :
          /\ accounts = [InitAccounts EXCEPT ![1].balance_cents = n]
          /\ transactions = [i \in 1..n |-> TxRow(1, "deposit", 1, i)]
    /\ InitCallers
    /\ codec = NoCodec

NextHistory ==
    \/ \E p \in Procs, u \in Users, n \in Names, input \in HistoryInputs :
           Quiet(p) /\ History(p, u, n, input)
    \/ \E p \in Procs : Return(p)

SpecHistory == InitHistory /\ [][NextHistory]_vars

\* The codec on its own: an amount of cents is formatted and the text read
\* back, or a typed text is read.
MaxCents == 250
MaxStrLen == 4

TypedChars == {"0", "5", "-", ".", ",", "$", " ", "x"}
TypedTexts ==
    UNION {[1..n -> TypedChars] : n \in 0..MaxStrLen}
        \cup {<<"5">>, <<"5", ".", "1">>,
               <<"$", "1", ",", "2", "3", "4", ".", "5">>,
               <<"-", "0", ".", "5", "0">>}

InitCodec ==
    /\ accounts = InitAccounts
    /\ transactions = InitTransactions
    /\ InitCallers
    /\ \/ \E x \in (-MaxCents)..MaxCents :
             codec = [NoCodec EXCEPT !.stage = "cents", !.cents = x]
       \/ \E t \in TypedTexts :
             codec = [NoCodec EXCEPT !.stage = "typed", !.text = t]

\* from_cents(x)
Format ==
    /\ codec.stage = "cents"
    /\ codec' = [codec EXCEPT !.stage = "formatted",
                              !.text = from_cents(codec.cents)]
    /\ UNCHANGED <<accounts, transactions, lock, txn, pc, call, src, dst, leg,
                   new_balance, result, pre, started, deleted, returned,
                   history>>

\* to_cents(text), of a formatted amount or of a typed text
Parse ==
    /\ codec.stage \in {"formatted", "typed"}
    /\ codec' = [codec EXCEPT
                    !.stage = IF @ = "formatted" THEN "roundtrip" ELSE "parsed",
                    !.parsed = to_cents(codec.text)]
    /\ UNCHANGED <<accounts, transactions, lock, txn, pc, call, src, dst, leg,
                   new_balance, result, pre, started, deleted, returned,
                   history>>

NextCodec == Format \/ Parse

SpecCodec == InitCodec /\ [][NextCodec]_vars

\* ------------------------------------------------------------------ claims
Done(p) == pc[p] = "done"
Ok(p) == Done(p) /\ result[p] = "ok"
Balance(accs, a) == accs[a].balance_cents
NumRows(txs, a) == Len(RowsOf(txs, a))

\* C1 (under SpecSerial): with the calls made one at a time, every account's
\* stored balance is the sum of the signed amounts of its transaction rows
\* (0 with no rows).
C1_BalanceIsSumOfRows ==
    \A a \in DOMAIN accounts :
        Balance(accounts, a) = SumAmounts(RowsOf(transactions, a))

\* An account with a positive balance, a row with a negative amount and at
\* least two rows.
C1_Witness ==
    \E a \in DOMAIN accounts :
        /\ Balance(accounts, a) > 0
        /\ NumRows(transactions, a) >= 2
        /\ \E i \in 1..Len(transactions) :
               /\ transactions[i].account_id = a
               /\ transactions[i].amount_cents < 0

\* C2: when every caller deposits the same amount a on the same account, all
\* starting from the same committed tables (balance b, k rows) and all
\* succeeding, the balance ends as b + N*a with k + N rows.
SameDepositByAll ==
    /\ \A p \in Procs : Ok(p) /\ call[p].kind = "deposit"
    /\ \A p, q \in Procs : call[p] = call[q] /\ pre[p] = pre[q]
    /\ \A p \in Procs : src[p] \in DOMAIN accounts

C2_ConcurrentDepositsNoLostUpdate ==
    SameDepositByAll =>
        \A p \in Procs :
            LET a == src[p]
                n == Cardinality(Procs)
            IN  /\ Balance(accounts, a) =
                       Balance(pre[p].accounts, a) + n * call[p].amount
                /\ NumRows(transactions, a) =
                       NumRows(pre[p].transactions, a) + n

\* C3: in every committed state, under any interleaving, every account's
\* stored balance is >= 0.
C3_BalanceNeverNegative ==
    \A a \in DOMAIN accounts : Balance(accounts, a) >= 0

\* A withdraw was committed that took an account down to 0 while another
\* call was under way.
C3_Witness ==
    \E p, q \in Procs :
        /\ p # q
        /\ Ok(p) /\ call[p].kind = "withdraw"
        /\ src[p] \in DOMAIN accounts
        /\ Balance(accounts, src[p]) = 0
        /\ pc[q] \notin {"idle", "done"}

\* C4: between an operation's read of an account's balance in add_tx and the
\* commit of its own write, no other operation's write to that account's
\* balance is committed.
C4_ReadModifyWriteIsolated ==
    [][\A p \in Procs :
          (/\ pc[p] \in {"update", "insert", "commit"}
           /\ Target(p) \in DOMAIN accounts
           /\ Target(p) \in DOMAIN accounts')
          => \/ Balance(accounts', Target(p)) = Balance(accounts, Target(p))
             \/ pc'[p] = "done" /\ result'[p] = "ok"]_vars

\* C5: a transfer whose debit leg has been applied keeps it to itself: the
\* committed tables stay as they were when the transfer took the write lock
\* (so no other operation reads the debit without the credit), and when the
\* transfer then fails they are still those tables: the source has its
\* pre-transfer balance and no transfer_out row.
DebitApplied(p) ==
    /\ call[p].kind = "transfer"
    /\ lock = {p}
    /\ leg[p] = 2

C5_TransferAtomicUnderFailure ==
    [][\A p \in Procs :
          DebitApplied(p) =>
              /\ Committed = pre[p]
              /\ (pc'[p] = "done" /\ result'[p] # "ok") => Committed' = pre[p]]_vars

\* One transfer failed on its credit leg because the destination row was
\* gone, another because the store failed, both after their debit.
C5_Witness ==
    \E p, q \in Procs :
        /\ Done(p) /\ call[p].kind = "transfer" /\ leg[p] = 2
        /\ result[p] = "AccountNotFound"
        /\ Done(q) /\ call[q].kind = "transfer" /\ leg[q] = 2
        /\ result[q] = "StorageUnavailable"

\* C6 (under SpecSerial): a transfer between two existing accounts of the
\* user whose amount exceeds the source's balance fails with
\* InsufficientFunds and leaves both tables as they were.
C6_OverdrawnTransferCommitsNothing ==
    \A p \in Procs :
        LET c == call[p]
            s == get_account(pre[p].accounts, c.user_id, c.name)
            d == get_account(pre[p].accounts, c.user_id, c.to)
        IN  (/\ Done(p)
             /\ c.kind = "transfer"
             /\ c.amount > 0
             /\ s # NoAccount /\ d # NoAccount /\ s # d
             /\ c.amount > Balance(pre[p].accounts, s))
            => /\ result[p] = "InsufficientFunds"
               /\ Committed = pre[p]

\* A transfer was refused for lack of funds on a source that holds money.
C6_Witness ==
    \E p \in Procs :
        /\ Done(p) /\ call[p].kind = "transfer"
        /\ result[p] = "InsufficientFunds"
        /\ src[p] \in DOMAIN accounts
        /\ Balance(accounts, src[p]) > 0

\* C7 (under SpecSerial): a withdraw of more than the account's balance is
\* refused with InsufficientFunds; the balance and the number of rows of the
\* account are what they were.
C7_OverdrawnWithdrawRejected ==
    \A p \in Procs :
        LET c == call[p]
            a == get_account(pre[p].accounts, c.user_id, c.name)
        IN  (/\ Done(p)
             /\ c.kind = "withdraw"
             /\ c.amount > 0
             /\ a # NoAccount
             /\ c.amount > Balance(pre[p].accounts, a))
            => /\ result[p] = "InsufficientFunds"
               /\ a \in DOMAIN accounts
               /\ Balance(accounts, a) = Balance(pre[p].accounts, a)
               /\ NumRows(transactions, a) = NumRows(pre[p].transactions, a)

\* A withdraw was refused on an account that holds money and has rows.
C7_Witness ==
    \E p \in Procs :
        /\ Done(p) /\ call[p].kind = "withdraw"
        /\ result[p] = "InsufficientFunds"
        /\ src[p] \in DOMAIN accounts
        /\ Balance(accounts, src[p]) > 0
        /\ NumRows(transactions, src[p]) > 0

\* C8: the ledger entry is all or nothing. A step of the engine only appends
\* to the committed transactions; a committed balance changes only together
\* with a new row of that account carrying the new balance; every new row of
\* an existing account carries the balance committed with it; and a call that
\* ends in an error commits nothing.
NewRowIds == (Len(transactions) + 1)..Len(transactions')

C8_LedgerEntryAllOrNothing ==
    [][deleted' = deleted =>
          /\ Len(transactions') >= Len(transactions)
          /\ SubSeq(transactions', 1, Len(transactions)) = transactions
          /\ DOMAIN accounts' = DOMAIN accounts
          /\ \A a \in DOMAIN accounts :
                 Balance(accounts', a) # Balance(accounts, a) =>
                     \E i \in NewRowIds :
                         /\ transactions'[i].account_id = a
                         /\ transactions'[i].balance_after_cents =
                                Balance(accounts', a)
          /\ \A i \in NewRowIds :
                 transactions'[i].account_id \in DOMAIN accounts' =>
                     transactions'[i].balance_after_cents =
                         Balance(accounts', transactions'[i].account_id)
          /\ \A p \in Procs :
                 (pc[p] # "done" /\ pc'[p] = "done" /\ result'[p] # "ok")
                 => Committed' = Committed]_vars

\* A deposit or withdraw failed on the store after its balance write, with
\* another call under way.
C8_Witness ==
    \E p, q \in Procs :
        /\ Done(p) /\ call[p].kind \in {"deposit", "withdraw"}
        /\ result[p] = "StorageUnavailable"
        /\ pc[q] \notin {"idle", "done"}

\* C9: the commit of a transfer of amount a from S to D appends exactly a
\* transfer_out row of -a on S and a transfer_in row of +a on D, takes a off
\* S's balance, adds a to D's, and changes no other account and no other row.
C9_SuccessfulTransferEffect ==
    [][\A p \in Procs :
          (/\ call[p].kind = "transfer"
           /\ pc[p] # "done" /\ pc'[p] = "done" /\ result'[p] = "ok")
          => LET a == call[p].amount
                 s == src[p]
                 d == dst[p]
             IN  /\ s # d /\ {s, d} \subseteq DOMAIN accounts
                 /\ accounts[s].user_id = call[p].user_id
                 /\ accounts[d].user_id = call[p].user_id
                 /\ accounts[s].name = call[p].name
                 /\ accounts[d].name = call[p].to
                 /\ a <= Balance(accounts, s)
                 /\ transactions' = transactions \o
                       << [account_id |-> s, kind |-> "transfer_out",
                           amount_cents |-> -a,
                           balance_after_cents |-> Balance(accounts, s) - a],
                          [account_id |-> d, kind |-> "transfer_in",
                           amount_cents |-> a,
                           balance_after_cents |-> Balance(accounts, d) + a] >>
                 /\ accounts' =
                       [accounts EXCEPT ![s].balance_cents = @ - a,
                                        ![d].balance_cents = @ + a]]_vars

\* A transfer was committed while another call was under way.
C9_Witness ==
    \E p, q \in Procs :
        /\ Ok(p) /\ call[p].kind = "transfer"
        /\ pc[q] \notin {"idle", "done"}

\* C10 (under SpecSerial): a call with amount <= 0 ends with InvalidAmount; a
\* call with amount > 0 that names an account the user does not have ends
\* with AccountNotFound; both leave the tables as they were.
NamesMissing(p) ==
    LET c == call[p] IN
    \/ get_account(pre[p].accounts, c.user_id, c.name) = NoAccount
    \/ /\ c.kind = "transfer"
       /\ get_account(pre[p].accounts, c.user_id, c.to) = NoAccount

C10_InvalidCallsRejected ==
    \A p \in Procs :
        Done(p) =>
            /\ call[p].amount <= 0 =>
                   result[p] = "InvalidAmount" /\ Committed = pre[p]
            /\ (call[p].amount > 0 /\ NamesMissing(p)) =>
                   result[p] = "AccountNotFound" /\ Committed = pre[p]

\* A transfer to a name the user does not have was refused, with history
\* already in the tables.
C10_Witness ==
    \E p \in Procs :
        /\ Done(p) /\ call[p].kind = "transfer"
        /\ result[p] = "AccountNotFound"
        /\ get_account(accounts, call[p].user_id, call[p].name) # NoAccount
        /\ transactions # <<>>

\* C11 (under SpecSerial): a transfer with amount > 0 from an account of the
\* user to that same account ends with SameAccountTransfer and leaves the
\* tables as they were; and, as long as no account's rows were deleted from
\* between them, no transfer_out row is followed by a transfer_in row on the
\* same account.
C11_SameAccountTransferRejected ==
    /\ \A p \in Procs :
          (/\ Done(p)
           /\ call[p].kind = "transfer"
           /\ call[p].amount > 0
           /\ call[p].name = call[p].to
           /\ \E a \in DOMAIN pre[p].accounts :
                  /\ pre[p].accounts[a].user_id = call[p].user_id
                  /\ pre[p].accounts[a].name = call[p].name)
          => /\ result[p] = "SameAccountTransfer"
             /\ Committed = pre[p]
    /\ \A i \in 1..(Len(transactions) - 1) :
          (/\ deleted = 0
           /\ transactions[i].kind = "transfer_out"
           /\ transactions[i + 1].kind = "transfer_in")
          => transactions[i].account_id # transactions[i + 1].account_id

\* A transfer from a funded account to itself was refused.
C11_Witness ==
    \E p \in Procs :
        /\ Done(p) /\ call[p].kind = "transfer"
        /\ result[p] = "SameAccountTransfer"
        /\ src[p] \in DOMAIN accounts
        /\ Balance(accounts, src[p]) >= call[p].amount

C13_CallsReturnNewBalance ==
    \A p \in Procs :
        (Ok(p) /\ call[p].kind \in {"deposit", "withdraw", "transfer"}) =>
            LET a == call[p].amount
                old_src == Balance(pre[p].accounts, src[p])
            IN  CASE call[p].kind = "deposit" ->
                        returned[p] = <<old_src + a>>
                  [] call[p].kind = "withdraw" ->
                        returned[p] = <<old_src - a>>
                  [] call[p].kind = "transfer" ->
                        returned[p] =
                            <<old_src - a,
                              Balance(pre[p].accounts, dst[p]) + a>>

\* C13 as amended (under SpecSerial): a successful deposit, withdraw or
\* transfer returns nothing; the new balance (old + amount for a deposit, old
\* - amount for a withdraw, source - amount and destination + amount for a
\* transfer) is the balance stored on the account and the balance_after of
\* the row the call appended.
C13_NewBalanceStoredNotReturned ==
    \A p \in Procs :
        (Ok(p) /\ call[p].kind \in {"deposit", "withdraw", "transfer"}) =>
            LET a == call[p].amount
                n == Len(transactions)
                old_src == Balance(pre[p].accounts, src[p])
            IN  /\ returned[p] = <<>>
                /\ CASE call[p].kind = "deposit" ->
                           /\ Balance(accounts, src[p]) = old_src + a
                           /\ transactions[n].account_id = src[p]
                           /\ transactions[n].balance_after_cents = old_src + a
                     [] call[p].kind = "withdraw" ->
                           /\ Balance(accounts, src[p]) = old_src - a
                           /\ transactions[n].account_id = src[p]
                           /\ transactions[n].balance_after_cents = old_src - a
                     [] call[p].kind = "transfer" ->
                           LET old_dst == Balance(pre[p].accounts, dst[p])
                           IN  /\ Balance(accounts, src[p]) = old_src - a
                               /\ Balance(accounts, dst[p]) = old_dst + a
                               /\ transactions[n - 1].account_id = src[p]
                               /\ transactions[n - 1].balance_after_cents
                                     = old_src - a
                               /\ transactions[n].account_id = dst[p]
                               /\ transactions[n].balance_after_cents
                                     = old_dst + a

\* A withdraw went through and handed nothing back.
C13_Witness ==
    \E p \in Procs :
        /\ Ok(p) /\ call[p].kind = "withdraw"
        /\ returned[p] = <<>>
        /\ Balance(accounts, src[p]) < Balance(pre[p].accounts, src[p])

\* C14 (under SpecCodec): for every integer x of cents, negative, zero or
\* positive, reading back the text x is formatted as succeeds and gives x.
C14_CodecRoundTrip ==
    codec.stage = "roundtrip" =>
        /\ codec.parsed.ok
        /\ codec.parsed.value = codec.cents

\* An amount between -99 and -1, whose integer part is 0, came back as itself.
C14_Witness ==
    /\ codec.stage = "roundtrip"
    /\ codec.cents \in (-99)..(-1)
    /\ codec.text[1] = "-" /\ codec.text[2] = "0"
    /\ codec.parsed.ok
    /\ codec.parsed.value = codec.cents

\* What C15 reads a text as: the text without the symbols that are removed,
\* surrounding white space among them when trim is set.
Cleaned(t, trim) ==
    LET a == IF trim THEN Strip(t) ELSE t
        b == RemoveAll(a, ",")
        c == IF StartsWith(b, "$") THEN Tail(b) ELSE b
    IN  IF StartsWith(c, "-") THEN Tail(c) ELSE c

DotAt(d) ==
    IF \E i \in 1..Len(d) : d[i] = "."
    THEN CHOOSE i \in 1..Len(d) : d[i] = "." /\ \A j \in 1..(i - 1) : d[j] # "."
    ELSE Len(d) + 1

\* More than one decimal point, more than two fractional digits, or a
\* character that is neither a digit nor the decimal point.
MustFail(t, trim) ==
    LET d == Cleaned(t, trim) IN
        \/ Cardinality({i \in 1..Len(d) : d[i] = "."}) > 1
        \/ Len(d) - DotAt(d) > 2
        \/ \E i \in 1..Len(d) : d[i] \notin Digits \cup {"."}

RECURSIVE Pow10(_)
Pow10(k) == IF k = 0 THEN 1 ELSE 10 * Pow10(k - 1)

RECURSIVE Decimal(_)
Decimal(d) ==
    IF d = <<>> THEN 0
    ELSE DigitVal(Head(d)) * Pow10(Len(d) - 1) + Decimal(Tail(d))

\* sign * (100 * whole + frac), frac right-padded with zeros to two digits
Expected(t) ==
    LET d == Cleaned(t, TRUE)
        whole == SubSeq(d, 1, DotAt(d) - 1)
        frac == SubSeq(d, DotAt(d) + 1, Len(d))
        cents == IF Len(frac) = 0 THEN 0
                 ELSE IF Len(frac) = 1 THEN 10 * DigitVal(frac[1])
                 ELSE 10 * DigitVal(frac[1]) + DigitVal(frac[2])
    IN  (IF StartsWith(RemoveAll(RemoveAll(Strip(t), ","), "$"), "-")
         THEN -1 ELSE 1) * (100 * Decimal(whole) + cents)

ExamplesRead ==
    /\ codec.text = <<"5">> => codec.parsed = Parsed(500)
    /\ codec.text = <<"5", ".", "1">> => codec.parsed = Parsed(510)
    /\ codec.text = <<"$", "1", ",", "2", "3", "4", ".", "5">>
          => codec.parsed = Parsed(123450)
    /\ codec.text = <<"-", "0", ".", "5", "0">> => codec.parsed = Parsed(-50)

\* C15 as stated (under SpecCodec): a text that is read gives sign * (100 *
\* whole + frac), the examples give 500, 510, 123450 and -50, and reading
\* fails when the text has more than one decimal point, more than two
\* fractional digits, or a non-digit left after removing a leading currency
\* symbol, commas and a leading minus.
C15_ParseAmountAsStated ==
    codec.stage = "parsed" =>
        /\ MustFail(codec.text, FALSE) => ~ codec.parsed.ok
        /\ codec.parsed.ok => codec.parsed.value = Expected(codec.text)
        /\ ExamplesRead

\* C15 as amended (under SpecCodec): the same, white space around the text
\* being removed as well before the text is examined.
C15_ParseAmountTrimmed ==
    codec.stage = "parsed" =>
        /\ MustFail(codec.text, TRUE) => ~ codec.parsed.ok
        /\ codec.parsed.ok => codec.parsed.value = Expected(codec.text)
        /\ ExamplesRead

\* "-0.50" was read as -50.
C15_Witness ==
    /\ codec.stage = "parsed"
    /\ codec.text = <<"-", "0", ".", "5", "0">>
    /\ codec.parsed = Parsed(-50)

\* C16 (under Spec): of two withdraws started on the same committed balance
\* that each fit the balance but not together, at most one succeeds; and no
\* account has more recorded as taken out than was put in.
C16_NoDoubleSpend ==
    /\ \A p, q \in Procs :
          (/\ p # q
           /\ Done(p) /\ Done(q)
           /\ call[p].kind = "withdraw" /\ call[q].kind = "withdraw"
           /\ src[p] = src[q]
           /\ pre[p] = pre[q]
           /\ src[p] \in DOMAIN pre[p].accounts
           /\ call[p].amount <= Balance(pre[p].accounts, src[p])
           /\ call[q].amount <= Balance(pre[p].accounts, src[p])
           /\ call[p].amount + call[q].amount
                 > Balance(pre[p].accounts, src[p]))
          => ~ (Ok(p) /\ Ok(q))
    /\ \A a \in DOMAIN accounts : SumAmounts(RowsOf(transactions, a)) >= 0

\* The transfer rows among rows, in order, are a transfer_out each followed
\* by a transfer_in of the opposite amount on another account.
TransferRows(rows) ==
    SelectSeq(rows, LAMBDA r : r.kind \in {"transfer_out", "transfer_in"})

Paired(rows) ==
    LET t == TransferRows(rows) IN
        /\ Len(t) % 2 = 0
        /\ \A k \in 1..(Len(t) \div 2) :
              /\ t[2 * k - 1].kind = "transfer_out"
              /\ t[2 * k].kind = "transfer_in"
              /\ t[2 * k - 1].amount_cents < 0
              /\ t[2 * k].amount_cents = - t[2 * k - 1].amount_cents
              /\ t[2 * k].account_id # t[2 * k - 1].account_id

\* C17 (under Spec): in every committed state the transfer_out and
\* transfer_in rows pair up one to one with opposite amounts, as long as no
\* account was deleted (the cascade removes one side's rows); and whatever
\* was deleted before, the rows a step commits are whole pairs.
C17_TransferRowsPaired ==
    /\ [](deleted = 0 => Paired(transactions))
    /\ [][deleted' = deleted =>
             /\ Len(transactions') >= Len(transactions)
             /\ SubSeq(transactions', 1, Len(transactions)) = transactions
             /\ Paired(SubSeq(transactions', Len(transactions) + 1,
                              Len(transactions')))]_vars

\* A committed pair of transfer rows is there to read while another call is
\* between its SELECT and its commit.
C17_Witness ==
    /\ \E i \in 1..(Len(transactions) - 1) :
          /\ transactions[i].kind = "transfer_out"
          /\ transactions[i + 1].kind = "transfer_in"
          /\ transactions[i + 1].amount_cents = - transactions[i].amount_cents
    /\ \E q \in Procs : pc[q] \in {"select", "update", "insert", "commit"}

\* C18 (under Spec): in every committed state each account's stored balance
\* is the balance_after of its most recent row, and 0 when it has no rows.
C18_BalanceIsLastBalanceAfter ==
    \A a \in DOMAIN accounts :
        LET rows == RowsOf(transactions, a) IN
            Balance(accounts, a) =
                IF rows = <<>> THEN 0
                ELSE rows[Len(rows)].balance_after_cents

\* Two calls that overlapped both committed on the same account, which now
\* has at least three rows.
C18_Witness ==
    \E p, q \in Procs :
        /\ p # q /\ Ok(p) /\ Ok(q)
        /\ pre[p] = pre[q]
        /\ src[p] = src[q]
        /\ src[p] \in DOMAIN accounts
        /\ NumRows(transactions, src[p]) >= 3

RECURSIVE SumBalances(_, _)
SumBalances(accs, ids) ==
    IF ids = {} THEN 0
    ELSE LET a == CHOOSE a \in ids : TRUE
         IN  accs[a].balance_cents + SumBalances(accs, ids \ {a})

\* C19 (under SpecTransfers): with only transfers running, whatever their
\* interleaving, the sum of all balances stays what it was, each account's
\* balance is the sum of the signed amounts of its rows, and each row's
\* balance_after is the one before it on the account plus its amount, as in
\* a serial run.
C19_ConcurrentTransfersSerial ==
    /\ SumBalances(accounts, DOMAIN accounts)
          = SumBalances(InitAccounts, DOMAIN InitAccounts)
    /\ \A a \in DOMAIN accounts :
          LET rows == RowsOf(transactions, a) IN
              /\ Balance(accounts, a) = SumAmounts(rows)
              /\ \A i \in 1..Len(rows) :
                    rows[i].balance_after_cents =
                        (IF i = 1 THEN 0 ELSE rows[i - 1].balance_after_cents)
                            + rows[i].amount_cents

\* Two transfers in opposite directions between the same two accounts were
\* both committed, one caller having begun before the other ended.
C19_Witness ==
    \E p, q \in Procs :
        /\ p # q /\ Ok(p) /\ Ok(q)
        /\ call[p].kind = "transfer" /\ call[q].kind = "transfer"
        /\ src[p] = dst[q] /\ dst[p] = src[q]
        /\ Len(TransferRows(transactions)) = 4

\* The account names a call gives.
NamesGiven(c) == IF c.kind = "transfer" THEN {c.name, c.to} ELSE {c.name}

\* C20 (under SpecCalls): a deposit, withdraw, transfer or history listing
\* made for user u leaves the balance and the rows of every account of
\* another user as they were, and ends with AccountNotFound when a name it
\* gives is not the name of an account of u (the amount being valid).
C20_OtherUsersUntouched ==
    \A p \in Procs :
        Done(p) =>
            LET u == call[p].user_id
                before == pre[p].accounts
            IN  /\ \A a \in DOMAIN before :
                      before[a].user_id # u =>
                          /\ a \in DOMAIN accounts
                          /\ accounts[a] = before[a]
                          /\ RowsOf(transactions, a)
                                = RowsOf(pre[p].transactions, a)
                /\ (/\ call[p].kind = "history" \/ call[p].amount > 0
                    /\ \E n \in NamesGiven(call[p]) :
                          \A a \in DOMAIN before :
                              ~ (before[a].user_id = u /\ before[a].name = n))
                   => result[p] = "AccountNotFound"

\* User 2 asked for the history of "Savings", a name only user 1 has an
\* account under, and was told there is no such account.
C20_Witness ==
    \E p \in Procs :
        /\ Done(p) /\ call[p].kind = "history"
        /\ call[p].user_id = 2 /\ call[p].name = "Savings"
        /\ \E a \in DOMAIN accounts :
              accounts[a].user_id = 1 /\ accounts[a].name = "Savings"
        /\ result[p] = "AccountNotFound"

TypeOK ==
    /\ DOMAIN accounts \subseteq DOMAIN InitAccounts
    /\ Cardinality(lock) <= 1
    /\ (lock = {}) = (txn = EmptyDb)
====
